---------------------------- MODULE Spec2Model ----------------------------
(***************************************************************************)
(* Model of the drone route planner of SpatialPlanning:                    *)
(*   src/path_planner.py  the planner, the re-planner and the smoothing    *)
(*   src/app.py           the Streamlit front end (session state, buttons) *)
(*                                                                         *)
(* Coordinates are integers (degrees).  A real number c * sqrt(r) with     *)
(* integers c and r >= 0 is the record [coef |-> c, rad |-> r], so that    *)
(* math.hypot and the products made from it are exact.  Weights are given  *)
(* in tenths (3 is 0.3).                                                   *)
(***************************************************************************)
EXTENDS Integers, Sequences, FiniteSets, TLC

(***************************************************************************)
(* Bounds of the model.                                                    *)
(***************************************************************************)
\* waypoints lie on the grid {0, 4, ..., GridN*4}^2
GridN == 2
\* longest path given to apply_spline_smoothing
MaxPathLen == 4

\* paths given to apply_spline_smoothing lie on {0, 4, ..., SmoothGridN*4}^2
SmoothGridN == 1
\* passes of apply_spline_smoothing run on one path
MaxPasses == 2

\* the waypoints are 4 apart, so that obstacles fit between them
Coords == {4 * i : i \in 0..GridN}
Points == Coords \X Coords
SmoothCoords == {4 * i : i \in 0..SmoothGridN}
SmoothPoints == SmoothCoords \X SmoothCoords

\* a polygon of the obstacle field: the closed box [x0,x1] x [y0,y1]
Box(x0, y0, x1, y1) == [x0 |-> x0, y0 |-> y0, x1 |-> x1, y1 |-> y1]

\* the obstacle fields a call is given (load_no_fly_zones returns a union)
NoObstacle == {}
CentreBlock == {Box(1, 1, 3, 3)}
Wall == {Box(1, -1, 3, 5)}
TwoZones == {Box(1, -1, 3, 1), Box(-1, 2, 1, 3)}
Fields == {NoObstacle, CentreBlock, Wall, TwoZones}

(***************************************************************************)
(* Real numbers of the form coef * sqrt(rad).                              *)
(***************************************************************************)
Zero == [coef |-> 0, rad |-> 0]

Real(c, r) == IF c = 0 \/ r = 0 THEN Zero ELSE [coef |-> c, rad |-> r]

\* math.hypot(dx, dy)
Hypot(dx, dy) == Real(1, dx * dx + dy * dy)

\* x * k for an integer k
Times(x, k) == Real(x.coef * k, x.rad)

\* x / k for an integer k that divides the coefficient
Over(x, k) == Real(x.coef \div k, x.rad)

\* x <= b for an integer b
Leq(x, b) ==
    LET sq == x.coef * x.coef * x.rad
    IN  IF x.coef >= 0
        THEN b >= 0 /\ sq <= b * b
        ELSE b >= 0 \/ sq >= b * b

\* x >= b for an integer b
Geq(x, b) == Leq(Times(x, -1), -b)

(***************************************************************************)
(* Geometry: shapely's LineString([a, b]).intersects(no_fly_union).        *)
(***************************************************************************)
Min(a, b) == IF a <= b THEN a ELSE b
Max(a, b) == IF a >= b THEN a ELSE b

\* twice the signed area of the triangle a, b, c
Cross(a, b, c) ==
    (b[1] - a[1]) * (c[2] - a[2]) - (b[2] - a[2]) * (c[1] - a[1])

Corners(box) ==
    {<<box.x0, box.y0>>, <<box.x1, box.y0>>, <<box.x0, box.y1>>, <<box.x1, box.y1>>}

\* the segment a-b and the closed box share a point (separating axes)
SegmentIntersectsBox(a, b, box) ==
    /\ Max(a[1], b[1]) >= box.x0
    /\ Min(a[1], b[1]) <= box.x1
    /\ Max(a[2], b[2]) >= box.y0
    /\ Min(a[2], b[2]) <= box.y1
    /\ ~ (\A c \in Corners(box) : Cross(a, b, c) > 0)
    /\ ~ (\A c \in Corners(box) : Cross(a, b, c) < 0)

Intersects(a, b, no_fly_union) ==
    \E box \in no_fly_union : SegmentIntersectsBox(a, b, box)

is_line_collision_free(a, b, no_fly_union) == ~ Intersects(a, b, no_fly_union)

(***************************************************************************)
(* The planner.                                                            *)
(***************************************************************************)
\* metres per degree and metres per kilometre
DegToMeters == 111000
MetersPerKm == 1000
\* the default of max_iter
DefaultMaxIter == 2000

DronePathResult(path) ==
    [path |-> path, total_distance |-> Zero, battery_used |-> Zero,
     risk_score |-> Zero]

\* dist and battery_used as the planner computes them
Dist(start, goal) ==
    Times(Hypot(goal[1] - start[1], goal[2] - start[2]), DegToMeters)

BatteryUsed(dist, battery_usage_rate) ==
    Times(Over(dist, MetersPerKm), battery_usage_rate)

\* the planner without its battery test
advanced_rrt_star_planner_nobattery(a) ==
    IF is_line_collision_free(a.start, a.goal, a.no_fly_union)
    THEN [path |-> <<a.start, a.goal>>,
          total_distance |-> Dist(a.start, a.goal),
          battery_used |-> BatteryUsed(Dist(a.start, a.goal), a.battery_usage_rate),
          risk_score |-> Over(Times(Dist(a.start, a.goal), a.risk_weight), 10)]
    ELSE DronePathResult(<<>>)

\* the planner with a strict battery test (battery_used < battery)
advanced_rrt_star_planner_strict(a) ==
    LET dist == Dist(a.start, a.goal)
        battery_used == BatteryUsed(dist, a.battery_usage_rate)
    IN  IF /\ is_line_collision_free(a.start, a.goal, a.no_fly_union)
           /\ ~ Geq(battery_used, a.battery)
        THEN [path |-> <<a.start, a.goal>>,
              total_distance |-> dist,
              battery_used |-> battery_used,
              risk_score |-> Over(Times(dist, a.risk_weight), 10)]
        ELSE DronePathResult(<<>>)

\* the planner that sets the metrics before the battery test and returns
\* path_result, not a fresh DronePathResult, when the battery does not suffice
advanced_rrt_star_planner_keepsMetrics(a) ==
    LET dist == Dist(a.start, a.goal)
        battery_used == BatteryUsed(dist, a.battery_usage_rate)
    IN  IF is_line_collision_free(a.start, a.goal, a.no_fly_union)
        THEN [path |-> IF Leq(battery_used, a.battery)
                       THEN <<a.start, a.goal>> ELSE <<>>,
              total_distance |-> dist,
              battery_used |-> battery_used,
              risk_score |-> Over(Times(dist, a.risk_weight), 10)]
        ELSE DronePathResult(<<>>)

advanced_rrt_star_planner(a) ==
    LET dist == Dist(a.start, a.goal)
        battery_used == BatteryUsed(dist, a.battery_usage_rate)
    IN  IF /\ is_line_collision_free(a.start, a.goal, a.no_fly_union)
           /\ Leq(battery_used, a.battery)
        THEN [path |-> <<a.start, a.goal>>,
              total_distance |-> dist,
              battery_used |-> battery_used,
              risk_score |-> Over(Times(dist, a.risk_weight), 10)]
        ELSE DronePathResult(<<>>)

\* the re-planner that does not pass battery on (the default 3000 applies)
dynamic_replan_rrt_star_defaultBattery(a) ==
    advanced_rrt_star_planner([a EXCEPT !.max_iter = DefaultMaxIter, !.battery = 3000])

\* the re-planner passes everything but max_iter
dynamic_replan_rrt_star(a) ==
    advanced_rrt_star_planner([a EXCEPT !.max_iter = DefaultMaxIter])


(***************************************************************************)
(* The smoothing.  The loop of apply_spline_smoothing, from index i (the   *)
(* Python index plus one) with smooth_path built so far.                   *)
(***************************************************************************)
Last(q) == q[Len(q)]

\* the loop with the shortcut tested from path[i-1], not from smooth_path[-1]
RECURSIVE SmoothLoop_fromPrevious(_, _, _, _)
SmoothLoop_fromPrevious(path, no_fly_union, i, smooth_path) ==
    IF i > Len(path) - 1 THEN smooth_path
    ELSE IF is_line_collision_free(path[i - 1], path[i + 1], no_fly_union)
         THEN SmoothLoop_fromPrevious(path, no_fly_union, i + 1, smooth_path)
         ELSE SmoothLoop_fromPrevious(path, no_fly_union, i + 1,
                                      Append(smooth_path, path[i]))

RECURSIVE SmoothLoop(_, _, _, _)
SmoothLoop(path, no_fly_union, i, smooth_path) ==
    IF i > Len(path) - 1 THEN smooth_path
    ELSE IF is_line_collision_free(Last(smooth_path), path[i + 1], no_fly_union)
         THEN SmoothLoop(path, no_fly_union, i + 1, smooth_path)
         ELSE SmoothLoop(path, no_fly_union, i + 1, Append(smooth_path, path[i]))

\* the smoothing without its final smooth_path.append(path[-1])
apply_spline_smoothing_dropsLast(path, no_fly_union) ==
    IF Len(path) < 3 THEN path
    ELSE SmoothLoop(path, no_fly_union, 2, <<path[1]>>)

apply_spline_smoothing(path, no_fly_union) ==
    IF Len(path) < 3 THEN path
    ELSE Append(SmoothLoop(path, no_fly_union, 2, <<path[1]>>), path[Len(path)])

\* get_mock_air_traffic: positions in hundredths of a degree
get_mock_air_traffic(num_agents) ==
    [i \in 1..num_agents |->
        [id |-> i, location |-> <<3890 + (i - 1), -7702 - (i - 1)>>, alt |-> 80]]

\* existing_traffic: None (written <<>>) or the mock traffic
Traffic == {<<>>, get_mock_air_traffic(2)}

(***************************************************************************)
(* State.                                                                  *)
(*   click_points, path, drone_index   st.session_state of the app         *)
(*   message                           what the run showed in the sidebar  *)
(*   called, args, result              the planning call of the run (or of *)
(*                                     a direct caller of path_planner.py) *)
(*   sm_path, sm_field, sm_out         a path given to the smoothing, its  *)
(*                                     obstacle field and the outputs of   *)
(*                                     the passes run on it so far         *)
(*   failed_before                     a direct caller has had a planning  *)
(*                                     call fail (history, not program     *)
(*                                     state: the planner keeps none)      *)
(***************************************************************************)
VARIABLES click_points, path, drone_index, message,
          called, args, result,
          sm_path, sm_field, sm_out,
          failed_before

vars == <<click_points, path, drone_index, message, called, args, result,
          sm_path, sm_field, sm_out, failed_before>>

appVars == <<click_points, path, drone_index, message>>
callVars == <<called, args, result>>
smVars == <<sm_path, sm_field, sm_out>>

\* values a direct caller may pass (any number is accepted by the signature)
Batteries == {-1, 0, 4440, 5000}
Rates == {-10, 0, 1, 10}
RiskWeights == {-1, 0, 3}
DistanceWeights == {-1, 5}

MakeArgs(start, goal, no_fly_union, battery, rate, dist_w, risk_w, traffic) ==
    [start |-> start, goal |-> goal, no_fly_union |-> no_fly_union,
     spot_elevs |-> <<>>, wind_factor |-> 10, max_altitude |-> 120,
     battery |-> battery, battery_usage_rate |-> rate,
     distance_weight |-> dist_w, risk_weight |-> risk_w,
     noise_weight |-> 2, existing_traffic |-> traffic,
     max_iter |-> DefaultMaxIter]

ArgSpace ==
    {MakeArgs(s, g, f, b, r, dw, rw, t) :
        s \in Points, g \in Points, f \in Fields, b \in Batteries,
        r \in Rates, dw \in DistanceWeights, rw \in RiskWeights, t \in Traffic}

\* the run made no planning call
NoArgs == MakeArgs(<<0, 0>>, <<0, 0>>, {}, 0, 0, 0, 0, <<>>)
NoResult == DronePathResult(<<>>)

AppIdle ==
    /\ click_points = <<>>
    /\ path = <<>>
    /\ drone_index = 0
    /\ message = "none"

SmoothIdle ==
    /\ sm_path = <<>>
    /\ sm_field = {}
    /\ sm_out = <<>>

\* no direct caller, no history of one
NoHistory == failed_before = FALSE

(***************************************************************************)
(* Direct calls of the planner: path_planner.py used as a library.         *)
(***************************************************************************)
PlannerInit ==
    /\ AppIdle
    /\ SmoothIdle
    /\ NoHistory
    /\ called = "none"
    /\ args \in ArgSpace
    /\ result = NoResult

PlanCall ==
    /\ called = "none"
    /\ called' = "plan"
    /\ result' = advanced_rrt_star_planner(args)
    /\ UNCHANGED <<args, appVars, smVars, failed_before>>

ReplanCall ==
    /\ called = "none"
    /\ called' = "replan"
    /\ result' = dynamic_replan_rrt_star(args)
    /\ UNCHANGED <<args, appVars, smVars, failed_before>>

\* the caller relaxes the constraints and asks again (the planner keeps no state)
Retry ==
    /\ called # "none"
    /\ \E b \in Batteries, r \in Rates :
          args' = [args EXCEPT !.battery = b, !.battery_usage_rate = r]
    /\ called' = "none"
    /\ result' = NoResult
    /\ failed_before' = (failed_before \/ result.path = <<>>)
    /\ UNCHANGED <<appVars, smVars>>

PlannerNext == PlanCall \/ ReplanCall \/ Retry

PlannerSpec == PlannerInit /\ [][PlannerNext]_vars

(***************************************************************************)
(* The app: every action is one run of main() (a Streamlit rerun), started *)
(* by a click on the map or by one button.  last_clicked is what st_folium *)
(* reports to the run: <<>> for None, <<p>> for a click at p.              *)
(***************************************************************************)
LastClicked == {<<>>} \cup {<<p>> : p \in Points}

\* values of the sidebar: number_input takes any integer, the sliders do not
AppBatteries == {0, 4440, 5000}
AppRates == {10, 20}

\* the click handler without its test of len(click_points)
HandleClick_noLimit(cp, last_clicked) ==
    IF last_clicked # <<>> THEN Append(cp, last_clicked[1]) ELSE cp

\* "Handle user clicks"
HandleClick(cp, last_clicked) ==
    IF last_clicked # <<>> /\ Len(cp) < 2 THEN Append(cp, last_clicked[1]) ELSE cp

\* what st_folium may report to a run started by a button
Reported == IF Len(click_points) < 2 THEN LastClicked ELSE {<<>>}

NoCall ==
    /\ called' = "none"
    /\ args' = NoArgs
    /\ result' = NoResult

Init ==
    /\ AppIdle
    /\ SmoothIdle
    /\ NoHistory
    /\ called = "none"
    /\ args = NoArgs
    /\ result = NoResult

MapClick ==
    \E p \in Points :
        /\ click_points' = HandleClick(click_points, <<p>>)
        /\ message' = "none"
        /\ NoCall
        /\ UNCHANGED <<path, drone_index, smVars, failed_before>>

\* the button, then the run that st.experimental_rerun() starts
ClearPoints ==
    \E last_clicked \in LastClicked :
        /\ click_points' = HandleClick(<<>>, last_clicked)
        /\ path' = <<>>
        /\ drone_index' = 0
        /\ message' = "none"
        /\ NoCall
        /\ UNCHANGED <<smVars, failed_before>>

PlanRoute ==
    \E last_clicked \in Reported, dynamic_mode \in BOOLEAN, do_spline \in BOOLEAN,
       no_fly_union \in Fields, initial_battery \in AppBatteries,
       battery_usage_rate \in AppRates :
        LET cp == HandleClick(click_points, last_clicked)
            a == MakeArgs(cp[1], cp[2], no_fly_union, initial_battery,
                          battery_usage_rate, 5, 3, <<>>)
            res == IF dynamic_mode THEN dynamic_replan_rrt_star(a)
                   ELSE advanced_rrt_star_planner(a)
            p == IF res.path # <<>> /\ do_spline
                 THEN apply_spline_smoothing(res.path, no_fly_union)
                 ELSE res.path
        IN  /\ Len(cp) = 2
            /\ click_points' = cp
            /\ called' = IF dynamic_mode THEN "replan" ELSE "plan"
            /\ args' = a
            /\ result' = res
            /\ path' = p
            /\ drone_index' = 0
            /\ message' = IF p # <<>> THEN "success" ELSE "error"
            /\ UNCHANGED <<smVars, failed_before>>

ResetDrone ==
    \E last_clicked \in Reported :
        /\ path # <<>>
        /\ click_points' = HandleClick(click_points, last_clicked)
        /\ drone_index' = 0
        /\ message' = "none"
        /\ NoCall
        /\ UNCHANGED <<path, smVars, failed_before>>

\* Next Waypoint without its test of the last waypoint
NextWaypoint_noBound ==
    \E last_clicked \in Reported :
        /\ path # <<>>
        /\ click_points' = HandleClick(click_points, last_clicked)
        /\ drone_index' = drone_index + 1
        /\ message' = "none"
        /\ NoCall
        /\ UNCHANGED <<path, smVars, failed_before>>

NextWaypoint ==
    \E last_clicked \in Reported :
        /\ path # <<>>
        /\ click_points' = HandleClick(click_points, last_clicked)
        /\ IF drone_index < Len(path) - 1
           THEN drone_index' = drone_index + 1 /\ message' = "none"
           ELSE drone_index' = drone_index /\ message' = "warning"
        /\ NoCall
        /\ UNCHANGED <<path, smVars, failed_before>>

Next == MapClick \/ ClearPoints \/ PlanRoute \/ ResetDrone \/ NextWaypoint

Spec == Init /\ [][Next]_vars

(***************************************************************************)
(* Properties of the planner, checked under PlannerSpec.                   *)
(***************************************************************************)
\* every consecutive pair of waypoints is joined by a free segment
PathCollisionFree(p, no_fly_union) ==
    \A i \in 1..(Len(p) - 1) : is_line_collision_free(p[i], p[i + 1], no_fly_union)

\* the least k with k * k >= n
CeilSqrt(n) == CHOOSE k \in 0..n : k * k >= n /\ (k = 0 \/ (k - 1) * (k - 1) < n)

\* an upper bound, in km, of the length of the segment a-b
SegmentKmUpper(a, b) ==
    (DegToMeters \div MetersPerKm)
        * CeilSqrt((b[1] - a[1]) * (b[1] - a[1]) + (b[2] - a[2]) * (b[2] - a[2]))

\* routes from start to goal over at most two further waypoints of the grid
Routes(start, goal) ==
    {<<start, goal>>}
        \cup {<<start, m, goal>> : m \in Points}
        \cup {<<start, m, n, goal>> : m \in Points, n \in Points}

RouteKmUpper(r) ==
    IF Len(r) = 2 THEN SegmentKmUpper(r[1], r[2])
    ELSE IF Len(r) = 3 THEN SegmentKmUpper(r[1], r[2]) + SegmentKmUpper(r[2], r[3])
    ELSE SegmentKmUpper(r[1], r[2]) + SegmentKmUpper(r[2], r[3])
             + SegmentKmUpper(r[3], r[4])

InvalidConfig(a) ==
    \/ a.distance_weight < 0
    \/ a.risk_weight < 0
    \/ a.noise_weight < 0
    \/ a.battery <= 0
    \/ a.battery_usage_rate <= 0

\* some obstacle-avoiding route exists that the battery certainly affords
Feasible(a) ==
    /\ ~ InvalidConfig(a)
    /\ \E r \in Routes(a.start, a.goal) :
          /\ PathCollisionFree(r, a.no_fly_union)
          /\ RouteKmUpper(r) * a.battery_usage_rate <= a.battery

\* C1: for every feasible start/goal pair with sufficient battery the planner
\* returns a path from start to goal whose consecutive segments are all free of
\* the obstacle field of the call (here for the routes of Routes, whose
\* length is bounded from above: a consequence of the claim).
C1_FeasiblePairGetsFreePath ==
    (called = "plan" /\ Feasible(args)) =>
        /\ result.path # <<>>
        /\ result.path[1] = args.start
        /\ result.path[Len(result.path)] = args.goal
        /\ PathCollisionFree(result.path, args.no_fly_union)

\* the length in km of a two-waypoint path
PathKm(p) ==
    Over(Times(Hypot(p[2][1] - p[1][1], p[2][2] - p[1][2]), DegToMeters), MetersPerKm)

\* C2: every non-empty path returned by the planner or the re-planner has
\* (distance in km) * battery_usage_rate <= battery, whatever the arguments.
C2_BatteryBudgetKept ==
    (called \in {"plan", "replan"} /\ result.path # <<>>) =>
        /\ Len(result.path) = 2
        /\ Leq(Times(PathKm(result.path), args.battery_usage_rate), args.battery)

\* a re-plan returned a path of positive length that uses the battery up exactly
C2_Witness ==
    /\ called = "replan"
    /\ result.path # <<>>
    /\ result.path[1] # result.path[2]
    /\ args.battery > 0
    /\ Geq(Times(PathKm(result.path), args.battery_usage_rate), args.battery)

\* C6: with battery 0 the planner reports infeasibility (an empty path) for
\* every start, goal and obstacle layout, start = goal included (stated for
\* the positive usage rates only: a consequence of the claim).
C6_ZeroBatteryInfeasible ==
    (called = "plan" /\ args.battery = 0 /\ args.battery_usage_rate > 0) =>
        result.path = <<>>

\* C8: the planner never returns a non-empty path for a configuration with a
\* negative weight, a non-positive battery or a non-positive usage rate.
C8_InvalidConfigRejected ==
    (called = "plan" /\ InvalidConfig(args)) => result.path = <<>>

\* C10: when the segment start-goal is free and distance_km * usage rate does
\* not exceed the battery, the planner returns exactly [start, goal], with
\* total_distance the straight-line distance and battery_used distance_km * rate.
C10_DirectPathReturned ==
    (/\ called = "plan"
     /\ is_line_collision_free(args.start, args.goal, args.no_fly_union)
     /\ Leq(Times(PathKm(<<args.start, args.goal>>), args.battery_usage_rate),
            args.battery)) =>
        /\ result.path = <<args.start, args.goal>>
        /\ result.total_distance =
               Times(Hypot(args.goal[1] - args.start[1], args.goal[2] - args.start[2]),
                     DegToMeters)
        /\ result.battery_used =
               Times(PathKm(<<args.start, args.goal>>), args.battery_usage_rate)

\* the planner returned the direct path past an obstacle field, battery to spare
C10_Witness ==
    /\ called = "plan"
    /\ args.no_fly_union # {}
    /\ args.start # args.goal
    /\ result.path = <<args.start, args.goal>>
    /\ ~ Geq(result.battery_used, args.battery)

(***************************************************************************)
(* apply_spline_smoothing run on every short path, once and again.         *)
(***************************************************************************)
PathsUpTo(n) == UNION {[1..k -> SmoothPoints] : k \in 0..n}

SmoothInit ==
    /\ AppIdle
    /\ NoHistory
    /\ called = "none"
    /\ args = NoArgs
    /\ result = NoResult
    /\ sm_path \in PathsUpTo(MaxPathLen)
    /\ sm_field \in Fields
    /\ sm_out = <<>>

\* one more pass, over the output of the pass before
SmoothPass ==
    /\ Len(sm_out) < MaxPasses
    /\ sm_out' = Append(sm_out,
                        apply_spline_smoothing(
                            IF sm_out = <<>> THEN sm_path ELSE Last(sm_out), sm_field))
    /\ UNCHANGED <<sm_path, sm_field, appVars, callVars, failed_before>>

SmoothNext == SmoothPass

SmoothSpec == SmoothInit /\ [][SmoothNext]_vars

\* q is p with some waypoints left out
RECURSIVE IsSubsequence(_, _)
IsSubsequence(q, p) ==
    IF q = <<>> THEN TRUE
    ELSE IF p = <<>> THEN FALSE
    ELSE IF q[1] = p[1] THEN IsSubsequence(Tail(q), Tail(p))
    ELSE IsSubsequence(q, Tail(p))

\* C3: smoothing is idempotent: smoothing the output of apply_spline_smoothing
\* again, with the same obstacle field, returns the same waypoint sequence
\* (stated for the collision-free input paths only: a consequence of the claim).
C3_SmoothingIdempotent ==
    (Len(sm_out) >= 2 /\ PathCollisionFree(sm_path, sm_field)) =>
        sm_out[2] = sm_out[1]

C5_SmoothingSubsequence ==
    (Len(sm_out) >= 1 /\ sm_path # <<>>) =>
        /\ IsSubsequence(sm_out[1], sm_path)
        /\ sm_out[1][1] = sm_path[1]
        /\ Last(sm_out[1]) = Last(sm_path)
        /\ Len(sm_out[1]) <= Len(sm_path)

\* a path of four waypoints, the two in the middle different from its ends,
\* was smoothed to a shorter path that still holds one of them
C5_Witness ==
    /\ Len(sm_out) >= 1
    /\ Len(sm_path) = 4
    /\ Len(sm_out[1]) = 3
    /\ sm_path[2] # sm_path[4]
    /\ sm_path[3] # sm_path[1]

(***************************************************************************)
(* Properties of the app, checked under Spec.                              *)
(***************************************************************************)
IsPrefix(q, p) == Len(q) <= Len(p) /\ SubSeq(p, 1, Len(q)) = q

\* C7: a re-plan made while the vehicle is along its path keeps the waypoints
\* already flown: the path stored by the run of dynamic_replan_rrt_star begins
\* with the waypoints up to the vehicle's position.
C7_ReplanKeepsFlownWaypoints ==
    [][(called' = "replan" /\ path # <<>> /\ drone_index >= 1) =>
           IsPrefix(SubSeq(path, 1, drone_index + 1), path')]_vars

\* what the caller and the user see of a planning run
Outcome == <<result, message>>

\* C9: a failed re-plan is reported as an outcome that differs from the
\* outcome of an initial planning call that finds no feasible path.
C9_StrandedIsDistinct ==
    [][(/\ called = "plan" /\ result.path = <<>>
        /\ called' = "replan" /\ result'.path = <<>>) =>
           Outcome' # Outcome]_vars

(***************************************************************************)
(* Further properties of the planner, checked under PlannerSpec.           *)
(***************************************************************************)
\* the direct segment of the call is free and the battery affords it
DirectRouteAffordable(a) ==
    /\ is_line_collision_free(a.start, a.goal, a.no_fly_union)
    /\ Leq(Times(PathKm(<<a.start, a.goal>>), a.battery_usage_rate), a.battery)

\* C11: every call of the planner yields a result value, a non-empty path or
\* the explicit no-feasible-path result (empty path, total_distance,
\* battery_used and risk_score all 0); a blocked segment or an insufficient
\* battery is signalled by that result, and a call made after a failed call
\* returns what its own arguments determine.
C11_FailureIsAnExplicitResult ==
    called = "plan" =>
        /\ result.path = <<>> =>
               /\ result.total_distance = Zero
               /\ result.battery_used = Zero
               /\ result.risk_score = Zero
        /\ result.path = <<>> <=> ~ DirectRouteAffordable(args)

\* after a failed call, a call with a relaxed battery returned a path
C11_Witness ==
    /\ failed_before
    /\ called = "plan"
    /\ args.start # args.goal
    /\ args.no_fly_union # {}
    /\ result.path = <<args.start, args.goal>>

\* values of the arguments the planner never reads
IgnoredValues ==
    {[spot_elevs |-> <<>>, wind_factor |-> 10, max_altitude |-> 120,
      existing_traffic |-> <<>>, max_iter |-> DefaultMaxIter],
     [spot_elevs |-> <<<<3890, -7702, 15>>>>, wind_factor |-> 20, max_altitude |-> 0,
      existing_traffic |-> get_mock_air_traffic(2), max_iter |-> 1],
     [spot_elevs |-> <<>>, wind_factor |-> 0, max_altitude |-> 120,
      existing_traffic |-> get_mock_air_traffic(3), max_iter |-> 0]}

WithIgnored(a, o) ==
    [a EXCEPT !.spot_elevs = o.spot_elevs, !.wind_factor = o.wind_factor,
              !.max_altitude = o.max_altitude,
              !.existing_traffic = o.existing_traffic, !.max_iter = o.max_iter]

\* C12: the re-planner and the planner return the same path, total_distance,
\* battery_used and risk_score for the same start, goal, obstacle field,
\* battery, usage rate and weights, whatever existing_traffic, spot_elevs,
\* wind_factor, max_altitude and max_iter are.
C12_ReplanEqualsPlan ==
    called \in {"plan", "replan"} =>
        \A o \in IgnoredValues :
            /\ result = advanced_rrt_star_planner(WithIgnored(args, o))
            /\ result = dynamic_replan_rrt_star(WithIgnored(args, o))

\* a re-plan with traffic in the air returned a path
C12_Witness ==
    /\ called = "replan"
    /\ args.existing_traffic # <<>>
    /\ args.start # args.goal
    /\ result.path = <<args.start, args.goal>>
    /\ result.battery_used # Zero

(***************************************************************************)
(* Further properties of the app, checked under Spec.                      *)
(***************************************************************************)
\* the step is a run of Plan Route: no other run makes a planning call
PlanRouteRan == called' # "none"

DroneIndexInRange ==
    path # <<>> => (0 <= drone_index /\ drone_index <= Len(path) - 1)

\* C13: whenever the stored path is non-empty, 0 <= drone_index <=
\* len(path) - 1; Next Waypoint at the last waypoint leaves drone_index as it
\* is, and Plan Route, Reset Drone and Clear Points each set it to 0.
C13_DroneIndexWithinPath ==
    /\ []DroneIndexInRange
    /\ [][/\ ((NextWaypoint /\ drone_index = Len(path) - 1)
                => (drone_index' = drone_index))
           /\ ((PlanRouteRan \/ ResetDrone \/ ClearPoints)
                => (drone_index' = 0))]_vars

\* Next Waypoint was pressed with the drone at the last waypoint of a route
C13_Witness ==
    /\ path # <<>>
    /\ path[1] # path[2]
    /\ drone_index = Len(path) - 1
    /\ message = "warning"

\* C14: click_points never holds more than two points, and whenever the
\* stored path is non-empty it holds exactly two, the path's first waypoint
\* being click_points[0] and its last click_points[1].
C14_PathJoinsTheClickedPoints ==
    /\ Len(click_points) <= 2
    /\ path # <<>> =>
           /\ Len(click_points) = 2
           /\ path[1] = click_points[1]
           /\ Last(path) = click_points[2]

\* a route between two different clicked points is stored and the drone has
\* moved along it
C14_Witness ==
    /\ Len(click_points) = 2
    /\ click_points[1] # click_points[2]
    /\ path = click_points
    /\ drone_index = 1

=============================================================================
